---- MODULE Spec2Model ----
(***************************************************************************)
(* Fair-distribution draw of rsl-chday: fairDistributionShuffle of         *)
(* src/supabase-schema.sql (the lib/supabase.ts part, lines 72-229).       *)
(* One invocation is a small state machine: entry (trivial-size return and *)
(* grouping), the per-level random sort, the creation of the cooldown maps *)
(* and one action per iteration of the pick loop.                          *)
(***************************************************************************)
EXTENDS Integers, Sequences, FiniteSets, TLC

\* ------------------------------------------------------------------ bounds
\* Largest pool handed to the function in the general specification.
MaxPool == 4
\* Largest pool of the specification that invokes the function repeatedly.
MaxPoolCalls == 3
\* Number of invocations made one after the other in that specification.
MaxCalls == 2
\* Entries per subgroup in the two-group scenario (2 groups x 2 subgroups).
ScenarioPerRoom == 1
\* Largest pool of the specification over subgroups of unequal size.
MaxUneven == 5
\* Rows of the students table in the specifications of the store.
MaxRoster == 3

\* ------------------------------------------------- program constants, data
\* const LEVEL_COOLDOWN = 5
LEVEL_COOLDOWN == 5

\* count: number = 10, the default of getRandomCandidates and ...ByLevel
DEFAULT_COUNT == 10

\* getRandomCandidates(10), getRandomCandidatesByLevel(selectedLevel, 10)
LoadCount == 10

\* level tokens of the model; "" is the malformed (missing) level
Levels == {"1", "2", ""}
\* room tokens of the model
Rooms == {"A", "B"}

\* interface Student (number and name play no part in the draw)
Student(i, l, r) == [id |-> i, level |-> l, room |-> r, is_winner |-> FALSE]

\* <<level, room>> of well-formed entries, and with the malformed level as well
WellFormedTags == (Levels \ {""}) \X Rooms

Tags == WellFormedTags \cup {<<"", "A">>}

\* the pools of n entries over the tags T: ids are distinct, the order is the
\* caller's
PoolsOfLen(T, n) ==
  {[i \in 1..n |-> Student(i, t[i][1], t[i][2])] : t \in [1..n -> T]}

PoolsUpTo(T, n) == UNION {PoolsOfLen(T, k) : k \in 0..n}

Range(s) == {s[i] : i \in 1..Len(s)}

RECURSIVE PermsOf(_)
PermsOf(S) ==
  IF S = {} THEN {<<>>}
  ELSE UNION {{<<x>> \o p : p \in PermsOf(S \ {x})} : x \in S}

\* an array of students from a sequence of <<level, room>> pairs, ids 1..n
PoolOf(tags) == [i \in 1..Len(tags) |-> Student(i, tags[i][1], tags[i][2])]

\* k copies of a sequence, one after the other
RECURSIVE Repeat(_, _)
Repeat(s, k) == IF k = 0 THEN <<>> ELSE s \o Repeat(s, k - 1)

\* scenario: groups "1" and "2", subgroups "A" and "B" each, ScenarioPerRoom
\* entries per subgroup, in the input orders that repeat one order of the four
\* subgroups
TwoGroupPools ==
  {PoolOf(Repeat(base, ScenarioPerRoom)) : base \in PermsOf({"1", "2"} \X {"A", "B"})}

\* scenario: one group "1" with subgroups "A", "B", "C" of 2 entries each
OneGroupPool ==
  PoolOf(<<<<"1", "A">>, <<"1", "A">>, <<"1", "B">>, <<"1", "B">>, <<"1", "C">>, <<"1", "C">>>>)

\* scenario: that group together with four entries of a second group "2"
MixedPool ==
  PoolOf(<<<<"1", "A">>, <<"1", "A">>, <<"1", "B">>, <<"1", "B">>, <<"1", "C">>, <<"1", "C">>,
           <<"2", "A">>, <<"2", "A">>, <<"2", "A">>, <<"2", "A">>>>)

\* scenario: group "1" with subgroups "A", "B", "C" and group "2" with subgroup
\* "A", every number of entries per subgroup, MaxUneven entries at most in all
UnevenPools ==
  {PoolOf(Repeat(<<<<"1", "A">>>>, n[1]) \o Repeat(<<<<"1", "B">>>>, n[2])
            \o Repeat(<<<<"1", "C">>>>, n[3]) \o Repeat(<<<<"2", "A">>>>, n[4])) :
     n \in {m \in [1..4 -> 0..MaxUneven] : m[1] + m[2] + m[3] + m[4] <= MaxUneven}}

\* scenario: six groups "1" .. "6" of 2 entries each, one subgroup per group
SixGroupPool ==
  PoolOf(Repeat(<<<<"1", "A">>, <<"2", "A">>, <<"3", "A">>,
                  <<"4", "A">>, <<"5", "A">>, <<"6", "A">>>>, 2))

\* <<level, room>> pairs whose tokens contain '-': `${level}-${room}` is "1-A-B"
\* for <<"1", "A-B">> and for <<"1-A", "B">>
DashTags == {<<"1", "A-B">>, <<"1", "C">>, <<"1-A", "B">>, <<"1-A", "C">>}

\* scenario: one entry of group "1" and six of group "2", so that group "1" can
\* be left more than LEVEL_COOLDOWN picks behind
TailPool ==
  PoolOf(<<<<"1", "A">>>> \o Repeat(<<<<"2", "A">>>>, 6))

\* scenario: three groups "1", "2", "3" of 2 entries each, one subgroup per
\* group, in the input orders that repeat one order of the three groups (the
\* order of first appearance is the iteration order of the maps)
ThreeGroupPools ==
  {PoolOf(Repeat(base, 2)) : base \in PermsOf({"1", "2", "3"} \X {"A"})}

\* an entry with a non-empty group and a non-empty subgroup
WellFormed(pool) == \A i \in 1..Len(pool) : pool[i].level # "" /\ pool[i].room # ""

\* ---------------------------------------------------------------- helpers
\* (mutant) a sort that leaves the array as it is
NoSort(arr) == {arr}

\* Array.prototype.sort(() => Math.random() - 0.5): the comparator is not
\* consistent, so the resulting order is any permutation of the array
RandomSorts(arr) == {[i \in 1..Len(arr) |-> arr[p[i]]] : p \in PermsOf(1..Len(arr))}

\* Map.get(k) || 0
GetOr0(m, k) == IF k \in DOMAIN m THEN m[k] ELSE 0

Max(a, b) == IF a >= b THEN a ELSE b

\* JavaScript truthiness of a `string | null`, null being <<>> and a string s <<s>>
Truthy(opt) == opt # <<>> /\ opt[1] # ""

\* `${level}-${s.room}`
RoomKey(level, room) == level \o "-" \o room

\* Array.prototype.indexOf, 1-based; 0 when absent
IndexOf(arr, x) ==
  IF \E i \in 1..Len(arr) : arr[i] = x
  THEN CHOOSE i \in 1..Len(arr) : arr[i] = x /\ \A j \in 1..(i - 1) : arr[j] # x
  ELSE 0

\* Array.prototype.splice(idx, 1) with idx 1-based
Splice1(arr, idx) == [i \in 1..(Len(arr) - 1) |-> IF i < idx THEN arr[i] ELSE arr[i + 1]]

\* --------------------------------------------------------------- the state
VARIABLES
  students,       \* the argument array, owned by the caller
  pc,             \* "entry" | "shuffle" | "loop" | "done" | "returned"
  byLevel,        \* Map level -> Student[]
  levelKeys,      \* insertion (= iteration) order of byLevel
  roomsPerLevel,  \* Map level -> Set of rooms
  shuffleIdx,     \* position of the sort loop in levelKeys
  result,         \* the result array; at "done", the returned array
  levelCooldown,  \* Map level -> picks remaining
  roomCooldown,   \* Map "level-room" -> picks remaining
  exit,           \* how the invocation returned
  iterations,     \* iterations of the while loop begun so far
  fallbacks,      \* the fallback branches this invocation has taken
  given,          \* the argument array as it was when the invocation began
  calls,          \* invocations begun so far
  prevLast,       \* the last pick of the previous invocation (<<>>: none)
  store,          \* the rows of the students table, in id order
  inflight,       \* per caller: the call to lib/supabase.ts it has made
  runner,         \* the caller whose call is inside fairDistributionShuffle
  succeeded,      \* ids whose update to is_winner = true was applied since the
                  \* last reset
  candidates,     \* GameDisplay: useState<Student[]>([])
  currentIndex,   \* GameDisplay: useState<number>(0)
  revealStage,    \* GameDisplay: useState<RevealStage>(0)
  isLoading,      \* GameDisplay: useState<boolean>(false)
  drawMode,       \* GameDisplay: useState<DrawMode>('all')
  levelChosen     \* GameDisplay: selectedLevel, useState<string>('1') (the name
                  \* selectedLevel is the local of fairDistributionShuffle here)

\* the table and the calls made on it
storeVars == <<store, inflight, runner, succeeded>>

\* the state of the GameDisplay component
displayVars == <<candidates, currentIndex, revealStage, isLoading, drawMode,
                 levelChosen>>

vars == <<students, pc, byLevel, levelKeys, roomsPerLevel, shuffleIdx, result,
          levelCooldown, roomCooldown, exit, iterations, fallbacks, given, calls,
          prevLast, storeVars, displayVars>>

EmptyMap == <<>>

\* the callers of the library, and those of them that load candidates
Callers == {"a", "b"}

Loaders == {"a"}

\* a caller that has made no call
IdleCall ==
  [op |-> "none", handler |-> "none", level |-> <<>>, count |-> 0, id |-> 0,
   stage |-> "none", ret |-> <<>>, ok |-> FALSE, excluded |-> {}, idx |-> 0,
   len |-> 0]

\* the function called directly: no table, no call in flight
NoStore ==
  /\ store = <<>>
  /\ inflight = [c \in Callers |-> IdleCall]
  /\ runner = "none"
  /\ succeeded = {}

\* the initial values of the useState hooks of GameDisplay
NoDisplay ==
  /\ candidates = <<>>
  /\ currentIndex = 0
  /\ revealStage = 0
  /\ isLoading = FALSE
  /\ drawMode = "all"
  /\ levelChosen = "1"

\* the state in which an invocation on `pool` begins
Begin(pool) ==
  /\ students = pool
  /\ given = pool
  /\ pc = "entry"
  /\ byLevel = EmptyMap
  /\ levelKeys = <<>>
  /\ roomsPerLevel = EmptyMap
  /\ shuffleIdx = 1
  /\ result = <<>>
  /\ levelCooldown = EmptyMap
  /\ roomCooldown = EmptyMap
  /\ exit = "none"
  /\ iterations = 0
  /\ fallbacks = {}
  /\ calls = 1
  /\ prevLast = <<>>
  /\ NoStore
  /\ NoDisplay

Init == \E pool \in PoolsUpTo(Tags, MaxPool) : Begin(pool)

\* ------------------------------------------------------- entry and grouping
\* levels in order of first appearance: the insertion order of byLevel
RECURSIVE KeysInOrder(_, _)
KeysInOrder(pool, acc) ==
  IF pool = <<>> THEN acc
  ELSE KeysInOrder(Tail(pool),
                   IF Head(pool).level \in Range(acc) THEN acc
                   ELSE Append(acc, Head(pool).level))

\* byLevel after the grouping loop: each level's students in input order
GroupByLevel(pool) ==
  [l \in {pool[i].level : i \in 1..Len(pool)} |->
     SelectSeq(pool, LAMBDA s : s.level = l)]

\* roomsPerLevel after the counting loop
RoomsByLevel(pool) ==
  [l \in {pool[i].level : i \in 1..Len(pool)} |->
     {pool[i].room : i \in {j \in 1..Len(pool) : pool[j].level = l}}]

\* (mutant) the trivial-size test written with < instead of <=
IsTrivialStrict(pool) == Len(pool) < 2

\* students.length <= 2
IsTrivial(pool) == Len(pool) <= 2

\* if (students.length <= 2) return students; else the two grouping loops
Enter ==
  /\ pc = "entry"
  /\ IF IsTrivial(students)
     THEN /\ result' = students
          /\ pc' = "done"
          /\ exit' = "passthrough"
          /\ UNCHANGED <<byLevel, levelKeys, roomsPerLevel>>
     ELSE /\ byLevel' = GroupByLevel(students)
          /\ levelKeys' = KeysInOrder(students, <<>>)
          /\ roomsPerLevel' = RoomsByLevel(students)
          /\ pc' = "shuffle"
          /\ UNCHANGED <<result, exit>>
  /\ shuffleIdx' = 1
  /\ UNCHANGED <<students, levelCooldown, roomCooldown, iterations, fallbacks,
                 given, calls, prevLast,
                 storeVars, displayVars>>

\* (mutant) the random sort applied to the argument array as well
ShuffleInPlace ==
  /\ pc = "shuffle"
  /\ shuffleIdx <= Len(levelKeys)
  /\ \E sorted \in RandomSorts(byLevel[levelKeys[shuffleIdx]]) :
       byLevel' = [byLevel EXCEPT ![levelKeys[shuffleIdx]] = sorted]
  /\ students' \in RandomSorts(students)
  /\ shuffleIdx' = shuffleIdx + 1
  /\ UNCHANGED <<pc, levelKeys, roomsPerLevel, result, levelCooldown,
                 roomCooldown, exit, iterations, fallbacks, given, calls, prevLast,
                 storeVars, displayVars>>

\* one iteration of: for (const [level, levelStudents] of byLevel.entries())
\*   byLevel.set(level, levelStudents.sort(() => Math.random() - 0.5))
ShuffleLevel ==
  /\ pc = "shuffle"
  /\ shuffleIdx <= Len(levelKeys)
  /\ \E sorted \in RandomSorts(byLevel[levelKeys[shuffleIdx]]) :
       byLevel' = [byLevel EXCEPT ![levelKeys[shuffleIdx]] = sorted]
  /\ shuffleIdx' = shuffleIdx + 1
  /\ UNCHANGED <<students, pc, levelKeys, roomsPerLevel, result, levelCooldown,
                 roomCooldown, exit, iterations, fallbacks, given, calls, prevLast,
                 storeVars, displayVars>>

\* (mutant) the cooldown maps declared at module level: one map serves every call
ReusedCooldownMap(previous) == previous

\* new Map() for a cooldown map declared inside the function: whatever map an
\* earlier invocation left (`previous`) is not reachable from this one
NewCooldownMap(previous) == EmptyMap

\* const result = []; const levelCooldown = new Map(); const roomCooldown = new Map()
InitLoop ==
  /\ pc = "shuffle"
  /\ shuffleIdx > Len(levelKeys)
  /\ result' = <<>>
  /\ levelCooldown' = NewCooldownMap(levelCooldown)
  /\ roomCooldown' = NewCooldownMap(roomCooldown)
  /\ pc' = "loop"
  /\ UNCHANGED <<students, byLevel, levelKeys, roomsPerLevel, shuffleIdx, exit,
                 iterations, fallbacks, given, calls, prevLast,
                 storeVars, displayVars>>

\* ------------------------------------------------------------ one pick step
\* (mutant) the cooldown test left out of the scan for available levels
AvailableIgnoringCooldown ==
  SelectSeq(levelKeys, LAMBDA l : byLevel[l] # <<>>)

\* levels that have students and are not on cooldown, in iteration order
AvailableLevels ==
  SelectSeq(levelKeys,
            LAMBDA l : byLevel[l] # <<>> /\ GetOr0(levelCooldown, l) <= 0)

\* (mutant) the fallback scan without the cooldown comparison: the first level
\* that has students
FirstLevelWithStudents(keys, minCooldown, bestLevel) ==
  IF SelectSeq(keys, LAMBDA l : byLevel[l] # <<>>) = <<>> THEN bestLevel
  ELSE <<Head(SelectSeq(keys, LAMBDA l : byLevel[l] # <<>>))>>

\* the fallback scan: minCooldown is <<>> for Infinity, bestLevel <<>> for null;
\* `cooldown < minCooldown` keeps the first level of lowest cooldown
RECURSIVE BestLevelFrom(_, _, _)
BestLevelFrom(keys, minCooldown, bestLevel) ==
  IF keys = <<>> THEN bestLevel
  ELSE LET level == Head(keys)
           cooldown == GetOr0(levelCooldown, level)
       IN IF byLevel[level] = <<>>
          THEN BestLevelFrom(Tail(keys), minCooldown, bestLevel)
          ELSE IF minCooldown = <<>> \/ cooldown < minCooldown[1]
               THEN BestLevelFrom(Tail(keys), <<cooldown>>, <<level>>)
               ELSE BestLevelFrom(Tail(keys), minCooldown, bestLevel)

BestLevel == BestLevelFrom(levelKeys, <<>>, <<>>)

\* (mutant) the lowest-cooldown fallback left out: break when all are on cooldown
BreakWhenAllOnCooldown == AvailableLevels = <<>>

\* if (availableLevels.length === 0) { ... if (bestLevel) ... else break; }
BreakNoLevel == AvailableLevels = <<>> /\ ~Truthy(BestLevel)

\* availableLevels before the random sort
CandidateLevels ==
  IF AvailableLevels # <<>> THEN AvailableLevels
  ELSE IF Truthy(BestLevel) THEN <<BestLevel[1]>> ELSE <<>>

\* (mutant) the room cooldown read under the room alone, a key never written
RoomCdUnkeyed(level, s) == GetOr0(roomCooldown, s.room)

\* cooldown of the room of s, read under the key `${level}-${s.room}`
RoomCd(level, s) == GetOr0(roomCooldown, RoomKey(level, s.room))

\* (mutant) the room fallback left out: bestStudent stays null
NoRoomFallback(level, ls, minRoomCooldown, bestStudent) == <<>>

\* the room fallback scan over levelStudents: first student of lowest cooldown
RECURSIVE BestStudentFrom(_, _, _, _)
BestStudentFrom(level, ls, minRoomCooldown, bestStudent) ==
  IF ls = <<>> THEN bestStudent
  ELSE IF minRoomCooldown = <<>> \/ RoomCd(level, Head(ls)) < minRoomCooldown[1]
       THEN BestStudentFrom(level, Tail(ls), <<RoomCd(level, Head(ls))>>, <<Head(ls)>>)
       ELSE BestStudentFrom(level, Tail(ls), minRoomCooldown, bestStudent)

\* (mutant) the filter on the room cooldown left out
EligibleIgnoringCooldown(level) == byLevel[level]

\* the students of the level whose room is not on cooldown
EligibleStudents(level) ==
  SelectSeq(byLevel[level], LAMBDA s : RoomCd(level, s) <= 0)

\* validStudents of one candidate level, after the fallback
ValidStudents(level) ==
  IF EligibleStudents(level) # <<>> THEN EligibleStudents(level)
  ELSE BestStudentFrom(level, byLevel[level], <<>>, <<>>)

\* selectedStudent = null, selectedLevel = null
NoSelection == [student |-> <<>>, level |-> <<>>, roomFallback |-> FALSE]

\* for (const level of availableLevels): the selections the first level that has
\* valid students can give, one per value of randomIndex
RECURSIVE TryLevels(_)
TryLevels(order) ==
  IF order = <<>> THEN {NoSelection}
  ELSE LET valid == ValidStudents(Head(order))
       IN IF Len(valid) > 0
          THEN {[student |-> <<valid[randomIndex]>>, level |-> <<Head(order)>>,
                 roomFallback |-> (EligibleStudents(Head(order)) = <<>>)] :
                  randomIndex \in 1..Len(valid)}
          ELSE TryLevels(Tail(order))

\* if (!selectedStudent || !selectedLevel)
Unselected(sel) == sel.student = <<>> \/ ~Truthy(sel.level)

\* the emergency fallback: the first student of the first non-empty bucket
NonEmptyKeys == SelectSeq(levelKeys, LAMBDA l : Len(byLevel[l]) > 0)

EmergencyFallback(sel) ==
  IF Unselected(sel) /\ NonEmptyKeys # <<>>
  THEN [student |-> <<byLevel[Head(NonEmptyKeys)][1]>>, level |-> <<Head(NonEmptyKeys)>>,
        roomFallback |-> sel.roomFallback]
  ELSE sel

\* the fallback branches one iteration takes, given what the level loop selected
FallbacksTaken(tried) ==
  (IF AvailableLevels = <<>> THEN {"level"} ELSE {})
    \cup (IF tried.roomFallback THEN {"room"} ELSE {})
    \cup (IF Unselected(tried) THEN {"emergency"} ELSE {})

\* (mutant) splice at the index after the selected student's
RemoveNextStudent(ls, s) ==
  IF IndexOf(ls, s) >= Len(ls) THEN ls ELSE Splice1(ls, IndexOf(ls, s) + 1)

\* levelStudents.splice(levelStudents.indexOf(selectedStudent), 1);
\* splice(-1, 1) removes the last element
RemoveStudent(ls, s) ==
  IF IndexOf(ls, s) = 0 THEN SubSeq(ls, 1, Len(ls) - 1) ELSE Splice1(ls, IndexOf(ls, s))

\* (mutant) the picked level's cooldown never set, only decreased
LevelCooldownNeverSet(lcd, selectedLevel) ==
  [l \in DOMAIN lcd |-> Max(lcd[l] - 1, 0)]

\* (mutant) the picked level's cooldown set one pick short
LevelCooldownOneShort(lcd, selectedLevel) ==
  [l \in (DOMAIN lcd) \cup {selectedLevel} |->
     IF l = selectedLevel THEN LEVEL_COOLDOWN - 1 ELSE Max(lcd[l] - 1, 0)]

\* (mutant) the other levels left as they are: no decrease
LevelCooldownNoDecrease(lcd, selectedLevel) ==
  [l \in (DOMAIN lcd) \cup {selectedLevel} |->
     IF l = selectedLevel THEN LEVEL_COOLDOWN ELSE lcd[l]]

\* levelCooldown after the commit: set the picked level, decrease the others
LevelCooldownAfter(lcd, selectedLevel) ==
  [l \in (DOMAIN lcd) \cup {selectedLevel} |->
     IF l = selectedLevel THEN LEVEL_COOLDOWN ELSE Max(lcd[l] - 1, 0)]

\* (mutant) the room cooldown one pick too short: roomCount - 2
RoomCooldownTooShort(rcd, selectedLevel, s) ==
  [k \in (DOMAIN rcd) \cup {RoomKey(selectedLevel, s.room)} |->
     IF k = RoomKey(selectedLevel, s.room)
     THEN Max(Cardinality(roomsPerLevel[selectedLevel]) - 2, 0)
     ELSE Max(rcd[k] - 1, 0)]

\* (mutant) only the room counters of the picked level are decreased
RoomCooldownOwnLevelOnly(rcd, selectedLevel, s) ==
  [k \in (DOMAIN rcd) \cup {RoomKey(selectedLevel, s.room)} |->
     IF k = RoomKey(selectedLevel, s.room)
     THEN Max(Cardinality(roomsPerLevel[selectedLevel]) - 1, 0)
     ELSE IF \E r \in Rooms : k = RoomKey(selectedLevel, r)
          THEN Max(rcd[k] - 1, 0)
          ELSE rcd[k]]

\* (mutant) the other room counters decreased without the floor at 0
RoomCooldownNoFloor(rcd, selectedLevel, s) ==
  [k \in (DOMAIN rcd) \cup {RoomKey(selectedLevel, s.room)} |->
     IF k = RoomKey(selectedLevel, s.room)
     THEN Max(Cardinality(roomsPerLevel[selectedLevel]) - 1, 0)
     ELSE rcd[k] - 1]

\* roomCooldown after the commit: set the picked key, decrease the others
RoomCooldownAfter(rcd, selectedLevel, s) ==
  [k \in (DOMAIN rcd) \cup {RoomKey(selectedLevel, s.room)} |->
     IF k = RoomKey(selectedLevel, s.room)
     THEN Max(Cardinality(roomsPerLevel[selectedLevel]) - 1, 0)
     ELSE Max(rcd[k] - 1, 0)]

\* result.push ... the two cooldown loops, then the while condition
Commit(s, selectedLevel) ==
  /\ result' = Append(result, s)
  /\ byLevel' = [byLevel EXCEPT ![selectedLevel] = RemoveStudent(@, s)]
  /\ levelCooldown' = LevelCooldownAfter(levelCooldown, selectedLevel)
  /\ roomCooldown' = RoomCooldownAfter(roomCooldown, selectedLevel, s)
  /\ IF Len(result) + 1 < Len(students)
     THEN pc' = "loop" /\ exit' = exit
     ELSE pc' = "done" /\ exit' = "loopEnd"

Break(why) ==
  /\ pc' = "done"
  /\ exit' = why
  /\ UNCHANGED <<result, byLevel, levelCooldown, roomCooldown>>

\* one iteration of while (result.length < students.length)
PickStep ==
  /\ pc = "loop"
  /\ Len(result) < Len(students)
  /\ iterations' = iterations + 1
  /\ IF BreakNoLevel
     THEN Break("noMoreStudents") /\ fallbacks' = fallbacks \cup {"level"}
     ELSE \E order \in RandomSorts(CandidateLevels) :
            \E tried \in TryLevels(order) :
              LET sel == EmergencyFallback(tried)
              IN /\ fallbacks' = fallbacks \cup FallbacksTaken(tried)
                 /\ IF Unselected(sel)
                    THEN Break("noSelection")
                    ELSE Commit(sel.student[1], sel.level[1])
  /\ UNCHANGED <<students, levelKeys, roomsPerLevel, shuffleIdx, given, calls,
                 prevLast,
                 storeVars, displayVars>>

\* the level and room of the last entry of an array (<<>> for an empty array)
LastPick(arr) ==
  IF arr = <<>> THEN <<>>
  ELSE <<[level |-> arr[Len(arr)].level, room |-> arr[Len(arr)].room]>>

\* return result: the caller has the returned array; the locals of the
\* invocation are gone. The two cooldown maps it built are shown as left behind,
\* for the next invocation's InitLoop to replace by maps of its own
Return ==
  /\ pc = "done"
  /\ calls < MaxCalls
  /\ pc' = "returned"
  /\ prevLast' = LastPick(result)
  /\ byLevel' = EmptyMap
  /\ levelKeys' = <<>>
  /\ roomsPerLevel' = EmptyMap
  /\ shuffleIdx' = 1
  /\ result' = <<>>
  /\ exit' = "none"
  /\ iterations' = 0
  /\ fallbacks' = {}
  /\ students' = <<>>
  /\ given' = <<>>
  /\ UNCHANGED <<levelCooldown, roomCooldown, calls,
                 storeVars, displayVars>>

\* the caller invokes the function again, on whatever pool it then holds
Reinvoke ==
  /\ pc = "returned"
  /\ \E pool \in PoolsUpTo(WellFormedTags, MaxPoolCalls) : students' = pool /\ given' = pool
  /\ pc' = "entry"
  /\ calls' = calls + 1
  /\ UNCHANGED <<byLevel, levelKeys, roomsPerLevel, shuffleIdx, result,
                 levelCooldown, roomCooldown, exit, iterations, fallbacks, prevLast,
                 storeVars, displayVars>>

\* ------------------------------------------------ the table and its calls
\* the locals of fairDistributionShuffle and the bookkeeping of its invocations
shuffleVars == <<students, pc, byLevel, levelKeys, roomsPerLevel, shuffleIdx,
                 result, levelCooldown, roomCooldown, exit, iterations, fallbacks,
                 given, calls, prevLast>>

\* no invocation of fairDistributionShuffle in progress
AtRest ==
  /\ pc = "returned"
  /\ students = <<>> /\ given = <<>>
  /\ byLevel = EmptyMap /\ levelKeys = <<>> /\ roomsPerLevel = EmptyMap
  /\ shuffleIdx = 1 /\ result = <<>>
  /\ levelCooldown = EmptyMap /\ roomCooldown = EmptyMap
  /\ exit = "none" /\ iterations = 0 /\ fallbacks = {}
  /\ calls = 0 /\ prevLast = <<>>

\* the rows of the table of the model: ids 1..MaxRoster, two levels
RosterTags ==
  <<<<"1", "A">>, <<"1", "B">>, <<"2", "A">>, <<"1", "A">>, <<"2", "B">>, <<"1", "B">>>>

Roster == PoolOf(SubSeq(RosterTags, 1, MaxRoster))

\* the values of `count` the callers pass
Counts == {1, DEFAULT_COUNT}

Min(a, b) == IF a <= b THEN a ELSE b

\* Array.prototype.slice(0, n) for 0 <= n
Slice0(arr, n) == SubSeq(arr, 1, Min(n, Len(arr)))

\* (mutant) the select without the filter on is_winner
SelectAnyRows(level) ==
  SelectSeq(store, LAMBDA s : level = <<>> \/ s.level = level[1])

\* .from('students').select('*').eq('is_winner', false) and, with a level
\* (<<l>>), .eq('level', l)
SelectRows(level) ==
  SelectSeq(store, LAMBDA s : ~s.is_winner /\ (level = <<>> \/ s.level = level[1]))

\* the orders in which a select without ORDER BY can return the rows it matches
RowOrders(rows) == {[i \in 1..Len(rows) |-> rows[p[i]]] : p \in PermsOf(1..Len(rows))}

\* (mutant) an update that inverts the flag of the row
ToggledRows(rows, id) ==
  [i \in 1..Len(rows) |->
     IF rows[i].id = id THEN [rows[i] EXCEPT !.is_winner = ~rows[i].is_winner]
     ELSE rows[i]]

\* .update({ is_winner: true }).eq('id', studentId)
MarkedRows(rows, id) ==
  [i \in 1..Len(rows) |->
     IF rows[i].id = id THEN [rows[i] EXCEPT !.is_winner = TRUE] ELSE rows[i]]

\* .update({ is_winner: false }).neq('id', 0)
ResetRows(rows) ==
  [i \in 1..Len(rows) |->
     IF rows[i].id # 0 THEN [rows[i] EXCEPT !.is_winner = FALSE] ELSE rows[i]]

\* a caller can make a call when its previous one has returned
CanCall(c) == inflight[c].op = "none" \/ inflight[c].stage = "returned"

\* the call getRandomCandidates(count) (level <<>>) or
\* getRandomCandidatesByLevel(l, count) (level <<l>>), about to query the table
LoadCall(level, count) ==
  [IdleCall EXCEPT !.op = "load", !.level = level, !.count = count,
                   !.stage = "select", !.excluded = succeeded]

\* the call markAsWinner(id), about to update the table
MarkCall(id) == [IdleCall EXCEPT !.op = "mark", !.id = id, !.stage = "update"]

GetRandomCandidates(c, count) ==
  /\ CanCall(c)
  /\ inflight' = [inflight EXCEPT ![c] = [LoadCall(<<>>, count) EXCEPT !.handler = "lib"]]
  /\ UNCHANGED <<store, runner, succeeded, shuffleVars, displayVars>>

GetRandomCandidatesByLevel(c, level, count) ==
  /\ CanCall(c)
  /\ inflight' = [inflight EXCEPT ![c] = [LoadCall(<<level>>, count) EXCEPT !.handler = "lib"]]
  /\ UNCHANGED <<store, runner, succeeded, shuffleVars, displayVars>>

\* (mutant) slice(0, count + 1)
SliceOneMore(arr, count) == Slice0(arr, Min(count + 1, Len(arr)))

\* shuffled.slice(0, Math.min(count, shuffled.length))
SliceCandidates(arr, count) == Slice0(arr, Min(count, Len(arr)))

\* the query of a load is answered: an error or no row returns [] at once;
\* otherwise fairDistributionShuffle(data) begins (one invocation at a time is
\* shown: an invocation shares nothing with another)
Select(c) ==
  /\ inflight[c].op = "load" /\ inflight[c].stage = "select"
  /\ \/ /\ inflight' = [inflight EXCEPT ![c].stage = "returned", ![c].ret = <<>>,
                                        ![c].ok = FALSE]
        /\ UNCHANGED <<runner, shuffleVars>>
     \/ IF SelectRows(inflight[c].level) = <<>>
        THEN /\ inflight' = [inflight EXCEPT ![c].stage = "returned",
                                             ![c].ret = <<>>, ![c].ok = TRUE]
             /\ UNCHANGED <<runner, shuffleVars>>
        ELSE /\ AtRest /\ runner = "none"
             /\ inflight' = [inflight EXCEPT ![c].stage = "shuffle", ![c].ok = TRUE]
             /\ runner' = c
             /\ \E data \in RowOrders(SelectRows(inflight[c].level)) :
                  students' = data /\ given' = data
             /\ pc' = "entry"
             /\ UNCHANGED <<byLevel, levelKeys, roomsPerLevel, shuffleIdx, result,
                            levelCooldown, roomCooldown, exit, iterations,
                            fallbacks, calls, prevLast>>
  /\ UNCHANGED <<store, succeeded, displayVars>>

\* return shuffled.slice(...): the call has its value, the locals of the
\* invocation are gone
ReturnCandidates(c) ==
  /\ pc = "done" /\ runner = c /\ inflight[c].stage = "shuffle"
  /\ inflight' = [inflight EXCEPT ![c].stage = "returned",
                                  ![c].ret = SliceCandidates(result, inflight[c].count)]
  /\ runner' = "none"
  /\ pc' = "returned"
  /\ students' = <<>> /\ given' = <<>>
  /\ byLevel' = EmptyMap /\ levelKeys' = <<>> /\ roomsPerLevel' = EmptyMap
  /\ shuffleIdx' = 1 /\ result' = <<>>
  /\ levelCooldown' = EmptyMap /\ roomCooldown' = EmptyMap
  /\ exit' = "none" /\ iterations' = 0 /\ fallbacks' = {}
  /\ UNCHANGED <<calls, prevLast, store, succeeded, displayVars>>

MarkAsWinner(c, id) ==
  /\ CanCall(c)
  /\ inflight' = [inflight EXCEPT ![c] = [MarkCall(id) EXCEPT !.handler = "lib"]]
  /\ UNCHANGED <<store, runner, succeeded, shuffleVars, displayVars>>

\* the update of a markAsWinner call is answered: an error (return false, the
\* table as it was) or the row of that id updated (return true)
Update(c) ==
  /\ inflight[c].op = "mark" /\ inflight[c].stage = "update"
  /\ \/ /\ inflight' = [inflight EXCEPT ![c].stage = "returned", ![c].ok = FALSE]
        /\ UNCHANGED <<store, succeeded>>
     \/ /\ inflight' = [inflight EXCEPT ![c].stage = "returned", ![c].ok = TRUE]
        /\ store' = MarkedRows(store, inflight[c].id)
        /\ succeeded' = succeeded \cup {inflight[c].id}
  /\ UNCHANGED <<runner, shuffleVars, displayVars>>

\* resetAllWinners() of the admin page, applied to the table
ResetAllWinners ==
  /\ succeeded # {}
  /\ store' = ResetRows(store)
  /\ succeeded' = {}
  /\ inflight' = [c \in Callers |-> [inflight[c] EXCEPT !.excluded = {}]]
  /\ UNCHANGED <<runner, shuffleVars, displayVars>>

\* the table with its rows, no call made, the display not mounted
InitStore ==
  /\ AtRest
  /\ store = Roster
  /\ inflight = [c \in Callers |-> IdleCall]
  /\ runner = "none"
  /\ succeeded = {}
  /\ NoDisplay

NextStore ==
  \/ \E c \in Loaders, count \in Counts : GetRandomCandidates(c, count)
  \/ \E c \in Loaders, level \in Levels \ {""}, count \in Counts :
       GetRandomCandidatesByLevel(c, level, count)
  \/ \E c \in Callers : Select(c)
  \/ Enter \/ ShuffleLevel \/ InitLoop \/ PickStep
  \/ \E c \in Callers : ReturnCandidates(c)
  \/ \E c \in Callers, id \in 1..MaxRoster : MarkAsWinner(c, id)
  \/ \E c \in Callers : Update(c)
  \/ ResetAllWinners

SpecStore == InitStore /\ [][NextStore]_vars

\* ------------------------------------------------------------ GameDisplay
\* const currentStudent = candidates[currentIndex] (currentIndex counts from 0)
HasCurrentStudent == currentIndex + 1 <= Len(candidates)

CurrentStudent == candidates[currentIndex + 1]

\* what loadCandidates asks for: <<selectedLevel>> in by-level mode, <<>> else
LoadTarget == IF drawMode = "by-level" THEN <<levelChosen>> ELSE <<>>

\* fairDistributionShuffle is synchronous: no handler of the display runs while
\* an invocation is in progress
Responsive == runner = "none"

\* a call record free for a new asynchronous handler of the display (at most
\* two run at a time; a record with op "off" is never used)
HasFreeSlot == \E c \in Callers : inflight[c].op = "none"

FreeSlot == IF inflight["a"].op = "none" THEN "a" ELSE "b"

\* loadCandidates up to its await: setIsLoading(true), setRevealStage(0),
\* setCurrentIndex(0) and the call of the draw mode; `origin` is what ran it
LoadCandidates(c, origin, target) ==
  /\ isLoading' = TRUE
  /\ revealStage' = 0
  /\ currentIndex' = 0
  /\ inflight' = [inflight EXCEPT ![c] =
                    [LoadCall(target, LoadCount) EXCEPT !.handler = origin]]

\* loadCandidates after its await: setCandidates(newCandidates),
\* setIsLoading(false); in handleConfirm the setIsLoading(false) that follows
LoadDone(c) ==
  /\ Responsive
  /\ inflight[c].op = "load" /\ inflight[c].stage = "returned"
  /\ inflight[c].handler # "lib"
  /\ candidates' = inflight[c].ret
  /\ isLoading' = FALSE
  /\ inflight' = [inflight EXCEPT ![c] = IdleCall]
  /\ UNCHANGED <<currentIndex, revealStage, drawMode, levelChosen, store, runner,
                 succeeded, shuffleVars>>

\* the RELOAD buttons: onClick={loadCandidates}, disabled or hidden when isLoading
ClickReload ==
  /\ Responsive
  /\ ~isLoading
  /\ HasFreeSlot
  /\ LoadCandidates(FreeSlot, "reload", LoadTarget)
  /\ UNCHANGED <<candidates, drawMode, levelChosen, store, runner, succeeded,
                 shuffleVars>>

\* onClick={() => setDrawMode(mode)}: a changed mode gives a new loadCandidates,
\* which the effect of lines 89-91 runs
SetDrawMode(mode) ==
  /\ Responsive
  /\ mode # drawMode
  /\ HasFreeSlot
  /\ drawMode' = mode
  /\ LoadCandidates(FreeSlot, "effect",
                    IF mode = "by-level" THEN <<levelChosen>> ELSE <<>>)
  /\ UNCHANGED <<candidates, levelChosen, store, runner, succeeded, shuffleVars>>

\* onClick={() => setSelectedLevel(level)}, shown in by-level mode only
SetSelectedLevel(level) ==
  /\ Responsive
  /\ drawMode = "by-level"
  /\ level # levelChosen
  /\ HasFreeSlot
  /\ levelChosen' = level
  /\ LoadCandidates(FreeSlot, "effect", <<level>>)
  /\ UNCHANGED <<candidates, drawMode, store, runner, succeeded, shuffleVars>>

\* (mutant) handleReveal without the test revealStage >= 4
HandleRevealUnbounded ==
  /\ Responsive
  /\ HasCurrentStudent
  /\ revealStage' = revealStage + 1
  /\ UNCHANGED <<candidates, currentIndex, isLoading, drawMode, levelChosen,
                 storeVars, shuffleVars>>

\* handleReveal: Space
HandleReveal ==
  /\ Responsive
  /\ HasCurrentStudent /\ revealStage < 4
  /\ revealStage' = revealStage + 1
  /\ UNCHANGED <<candidates, currentIndex, isLoading, drawMode, levelChosen,
                 storeVars, shuffleVars>>

\* (mutant) the key y handled at any reveal stage, loading or not
HandleConfirmAnyStage ==
  /\ Responsive
  /\ HasCurrentStudent
  /\ HasFreeSlot
  /\ isLoading' = TRUE
  /\ inflight' = [inflight EXCEPT ![FreeSlot] =
                    [MarkCall(CurrentStudent.id) EXCEPT
                       !.handler = "handleConfirm", !.idx = currentIndex,
                       !.len = Len(candidates), !.level = LoadTarget]]
  /\ UNCHANGED <<candidates, currentIndex, revealStage, drawMode, levelChosen,
                 store, runner, succeeded, shuffleVars>>

\* handleConfirm up to its await, run by the key y or the CONFIRM button (both
\* at reveal stage 4 with isLoading false): setIsLoading(true) and
\* markAsWinner(currentStudent.id); currentIndex, candidates.length and
\* loadCandidates are those of the render the handler belongs to
HandleConfirm ==
  /\ Responsive
  /\ revealStage = 4 /\ ~isLoading
  /\ HasCurrentStudent
  /\ HasFreeSlot
  /\ isLoading' = TRUE
  /\ inflight' = [inflight EXCEPT ![FreeSlot] =
                    [MarkCall(CurrentStudent.id) EXCEPT
                       !.handler = "handleConfirm", !.idx = currentIndex,
                       !.len = Len(candidates), !.level = LoadTarget]]
  /\ UNCHANGED <<candidates, currentIndex, revealStage, drawMode, levelChosen,
                 store, runner, succeeded, shuffleVars>>

\* (mutant) handleConfirm that stops when markAsWinner returned false
ConfirmMarkedChecked(c) ==
  /\ Responsive
  /\ inflight[c].op = "mark" /\ inflight[c].stage = "returned"
  /\ inflight[c].handler = "handleConfirm"
  /\ IF ~inflight[c].ok
     THEN /\ isLoading' = FALSE
          /\ inflight' = [inflight EXCEPT ![c] = IdleCall]
          /\ UNCHANGED <<currentIndex, revealStage>>
     ELSE IF inflight[c].idx < inflight[c].len - 1
          THEN /\ currentIndex' = currentIndex + 1
               /\ revealStage' = 0
               /\ isLoading' = FALSE
               /\ inflight' = [inflight EXCEPT ![c] = IdleCall]
          ELSE LoadCandidates(c, "handleConfirm", inflight[c].level)
  /\ UNCHANGED <<candidates, drawMode, levelChosen, store, runner, succeeded,
                 shuffleVars>>

\* handleConfirm after await markAsWinner(...): the next candidate, or
\* await loadCandidates()
ConfirmMarked(c) ==
  /\ Responsive
  /\ inflight[c].op = "mark" /\ inflight[c].stage = "returned"
  /\ inflight[c].handler = "handleConfirm"
  /\ IF inflight[c].idx < inflight[c].len - 1
     THEN /\ currentIndex' = currentIndex + 1
          /\ revealStage' = 0
          /\ isLoading' = FALSE
          /\ inflight' = [inflight EXCEPT ![c] = IdleCall]
     ELSE LoadCandidates(c, "handleConfirm", inflight[c].level)
  /\ UNCHANGED <<candidates, drawMode, levelChosen, store, runner, succeeded,
                 shuffleVars>>

\* (mutant) a skip that marks the current student before it moves on
HandleSkipMarking ==
  /\ Responsive
  /\ revealStage = 4 /\ ~isLoading
  /\ HasCurrentStudent
  /\ HasFreeSlot
  /\ isLoading' = TRUE
  /\ inflight' = [inflight EXCEPT ![FreeSlot] =
                    [MarkCall(CurrentStudent.id) EXCEPT
                       !.handler = "handleSkip", !.idx = currentIndex,
                       !.len = Len(candidates), !.level = LoadTarget]]
  /\ UNCHANGED <<candidates, currentIndex, revealStage, drawMode, levelChosen,
                 store, runner, succeeded, shuffleVars>>

\* handleSkip, run by the key n or the SKIP button (both at reveal stage 4 with
\* isLoading false): the next candidate, or loadCandidates() without await
HandleSkip ==
  /\ Responsive
  /\ revealStage = 4 /\ ~isLoading
  /\ IF currentIndex < Len(candidates) - 1
     THEN /\ currentIndex' = currentIndex + 1
          /\ revealStage' = 0
          /\ UNCHANGED <<isLoading, inflight>>
     ELSE /\ HasFreeSlot
          /\ LoadCandidates(FreeSlot, "handleSkip", LoadTarget)
  /\ UNCHANGED <<candidates, drawMode, levelChosen, store, runner, succeeded,
                 shuffleVars>>

\* the table of the display specifications: two rows of level "1", one of "2"
DisplayRoster == PoolOf(<<<<"1", "A">>, <<"1", "B">>, <<"2", "A">>>>)

\* the display mounted on the table: the effect of lines 89-91 has run
\* loadCandidates once; one asynchronous handler at a time
InitDisplay ==
  /\ AtRest
  /\ store = DisplayRoster
  /\ runner = "none"
  /\ succeeded = {}
  /\ candidates = <<>>
  /\ currentIndex = 0
  /\ revealStage = 0
  /\ isLoading = TRUE
  /\ drawMode = "all"
  /\ levelChosen = "1"
  /\ inflight = [c \in Callers |->
                   IF c = "a"
                   THEN [LoadCall(<<>>, LoadCount) EXCEPT !.handler = "effect"]
                   ELSE [IdleCall EXCEPT !.op = "off"]]

NextDisplay ==
  \/ HandleReveal \/ HandleConfirm \/ HandleSkip \/ ClickReload
  \/ \E mode \in {"all", "by-level"} : SetDrawMode(mode)
  \/ \E level \in Levels \ {""} : SetSelectedLevel(level)
  \/ \E c \in Callers : Select(c)
  \/ Enter \/ ShuffleLevel \/ InitLoop \/ PickStep
  \/ \E c \in Callers : ReturnCandidates(c)
  \/ \E c \in Callers : Update(c)
  \/ \E c \in Callers : LoadDone(c)
  \/ \E c \in Callers : ConfirmMarked(c)

SpecDisplay == InitDisplay /\ [][NextDisplay]_vars

\* the table of the display with overlapping handlers: one row of level "1",
\* one of level "2"
OverlapRoster == PoolOf(<<<<"1", "A">>, <<"2", "A">>>>)

\* the display mounted on that table, the first loadCandidates in flight; a
\* second asynchronous handler can run while one is pending
InitOverlap ==
  /\ AtRest
  /\ store = OverlapRoster
  /\ runner = "none"
  /\ succeeded = {}
  /\ candidates = <<>>
  /\ currentIndex = 0
  /\ revealStage = 0
  /\ isLoading = TRUE
  /\ drawMode = "all"
  /\ levelChosen = "1"
  /\ inflight = [c \in Callers |->
                   IF c = "a"
                   THEN [LoadCall(<<>>, LoadCount) EXCEPT !.handler = "effect"]
                   ELSE IdleCall]

\* a load of at most two rows returns from fairDistributionShuffle at its
\* trivial-size test (Enter), so the pick loop takes no step here
NextOverlap ==
  \/ HandleReveal \/ HandleConfirm \/ HandleSkip \/ ClickReload
  \/ \E mode \in {"all", "by-level"} : SetDrawMode(mode)
  \/ \E level \in Levels \ {""} : SetSelectedLevel(level)
  \/ \E c \in Callers : Select(c)
  \/ Enter
  \/ \E c \in Callers : ReturnCandidates(c)
  \/ \E c \in Callers : Update(c)
  \/ \E c \in Callers : LoadDone(c)
  \/ \E c \in Callers : ConfirmMarked(c)

SpecOverlap == InitOverlap /\ [][NextOverlap]_vars

\* one invocation
Next == Enter \/ ShuffleLevel \/ InitLoop \/ PickStep

Spec == Init /\ [][Next]_vars

\* one invocation on a two-group scenario pool
InitTwoGroups == \E pool \in TwoGroupPools : Begin(pool)

SpecTwoGroups == InitTwoGroups /\ [][Next]_vars

\* one invocation on a pool that holds a group of three subgroups
InitRooms == Begin(OneGroupPool) \/ Begin(MixedPool)

SpecRooms == InitRooms /\ [][Next]_vars

\* one invocation on a pool with subgroups of unequal size
InitUneven == \E pool \in UnevenPools : Begin(pool)

SpecUneven == InitUneven /\ [][Next]_vars

\* one invocation on a well-formed pool of at most MaxPool entries or on the pool
\* of six groups
InitSixGroups ==
  \/ \E pool \in PoolsUpTo(WellFormedTags, MaxPool) : Begin(pool)
  \/ Begin(SixGroupPool)

SpecSixGroups == InitSixGroups /\ [][Next]_vars

\* one invocation on a pool whose level and room tokens contain '-'
InitDash == \E pool \in PoolsUpTo(DashTags, MaxPool) : Begin(pool)

SpecDash == InitDash /\ [][Next]_vars

\* one invocation on a pool of at most MaxPool entries or on the pool with the
\* long tail of one group
InitTail ==
  \/ \E pool \in PoolsUpTo(Tags, MaxPool) : Begin(pool)
  \/ Begin(TailPool)

SpecTail == InitTail /\ [][Next]_vars

\* one invocation on a three-group scenario pool
InitThreeGroups == \E pool \in ThreeGroupPools : Begin(pool)

SpecThreeGroups == InitThreeGroups /\ [][Next]_vars

\* several invocations one after the other, on pools of at most MaxPoolCalls
InitCalls == \E pool \in PoolsUpTo(WellFormedTags, MaxPoolCalls) : Begin(pool)

NextCalls == Enter \/ ShuffleLevel \/ InitLoop \/ PickStep \/ Return \/ Reinvoke

SpecCalls == InitCalls /\ [][NextCalls]_vars

\* ------------------------------------------------------------------ claims
\* every entry of `pool` occurs exactly once in `out`, and nothing else does
IsPermutationOf(out, pool) ==
  /\ Len(out) = Len(pool)
  /\ \A i \in 1..Len(pool) :
       Cardinality({j \in 1..Len(out) : out[j] = pool[i]}) = 1

\* C1 Bijection: for a pool of entries with distinct ids, non-empty groups and
\* non-empty subgroups, the returned sequence has the length of the pool and
\* holds every entry of the pool exactly once.
C1_Bijection ==
  (pc = "done" /\ WellFormed(given)) => IsPermutationOf(result, given)

C1_Witness ==
  /\ pc = "done" /\ WellFormed(given) /\ Len(given) >= 3
  /\ exit = "loopEnd" /\ result # given

\* C2 Trivial-size passthrough: a pool of at most 2 entries is returned in its
\* input order, without any loop iteration, fallback or cooldown entry.
C2_TrivialPassthrough ==
  (pc = "done" /\ Len(given) <= 2) =>
     /\ result = given
     /\ exit = "passthrough"
     /\ iterations = 0
     /\ fallbacks = {}
     /\ levelCooldown = EmptyMap /\ roomCooldown = EmptyMap

C2_Witness ==
  /\ pc = "done" /\ Len(given) = 2 /\ result = given
  /\ given[1].level # given[2].level

\* C3 Termination: on a well-formed pool of M >= 3 entries every loop iteration
\* commits exactly one entry, a further iteration is possible as long as entries
\* remain, the function returns after exactly M iterations with M entries, and
\* neither defensive break is taken.
C3_Termination ==
  (WellFormed(given) /\ Len(given) >= 3) =>
     /\ iterations = Len(result)
     /\ exit \in {"none", "loopEnd"}
     /\ (pc = "loop" => Len(result) < Len(given) /\ ENABLED PickStep)
     /\ (pc = "done" => exit = "loopEnd" /\ iterations = Len(given)
                          /\ Len(result) = Len(given))

C3_Witness ==
  /\ pc = "done" /\ WellFormed(given) /\ Len(given) >= 3
  /\ iterations = Len(given) /\ "level" \in fallbacks

\* C4 Group-cooldown spacing: on a well-formed pool, a pick step picks a group
\* whose cooldown counter is > 0 only if, at that step, no group with remaining
\* entries has a cooldown counter <= 0.
C4_GroupCooldownHonoured ==
  [][(pc = "loop" /\ WellFormed(given) /\ Len(result') = Len(result) + 1) =>
       (GetOr0(levelCooldown, result'[Len(result')].level) > 0 =>
          ~ \E l \in DOMAIN byLevel :
               byLevel[l] # <<>> /\ GetOr0(levelCooldown, l) <= 0)]_vars

\* the second pick honours the cooldown of the first group (which has entries
\* left), the third is forced back to it with its counter still above 0
C4_Witness ==
  /\ WellFormed(given) /\ Len(result) >= 4
  /\ result[3].level = result[1].level
  /\ result[2].level # result[1].level
  /\ result[4].level # result[3].level

\* the groups of the entries at positions j.. of a finished output: the groups
\* that still had entries when pick j was made
RemainingGroupsAt(out, j) == {out[k].level : k \in j..Len(out)}

\* pick j of a finished output is in the final tail: only one group still had
\* entries when it was made
InFinalTail(out, j) == Cardinality(RemainingGroupsAt(out, j)) = 1

\* C5 Two-group scenario, as claimed: the scenario pool is returned in full and
\* no group repeats within LEVEL_COOLDOWN picks of one of its own picks, except
\* in the final tail where only one group still has entries.
C5_NoRepeatWithinFive ==
  (pc = "done" /\ given \in TwoGroupPools) =>
     /\ Len(result) = 4 * ScenarioPerRoom
     /\ \A i, j \in 1..Len(result) :
          (i < j /\ j - i <= LEVEL_COOLDOWN /\ result[i].level = result[j].level)
             => InFinalTail(result, j)

\* C5 Two-group scenario, amended: the scenario pool is returned in full and no
\* group is picked at two consecutive positions, except in the final tail where
\* only one group still has entries.
C5_NoGroupTwiceInARow ==
  (pc = "done" /\ given \in TwoGroupPools) =>
     /\ Len(result) = 4 * ScenarioPerRoom
     /\ \A j \in 2..Len(result) :
          result[j].level = result[j - 1].level => InFinalTail(result, j)

\* a finished output of the scenario in which a group recurs two picks after
\* its own pick while both groups still have entries
C5_Witness ==
  /\ pc = "done" /\ given \in TwoGroupPools /\ Len(result) = 4 * ScenarioPerRoom
  /\ result[3].level = result[1].level
  /\ ~InFinalTail(result, 3)

\* the rooms of the first n entries of group g in an output
RECURSIVE FirstRoomsOf(_, _, _)
FirstRoomsOf(out, g, n) ==
  IF n = 0 \/ out = <<>> THEN <<>>
  ELSE IF Head(out).level = g
       THEN <<Head(out).room>> \o FirstRoomsOf(Tail(out), g, n - 1)
       ELSE FirstRoomsOf(Tail(out), g, n)

\* group g of the pool has exactly the subgroups "A", "B", "C", 2 or more
\* entries in each
HasThreeRooms(pool, g) ==
  /\ {pool[i].room : i \in {k \in 1..Len(pool) : pool[k].level = g}} = {"A", "B", "C"}
  /\ \A r \in {"A", "B", "C"} :
       Cardinality({i \in 1..Len(pool) : pool[i].level = g /\ pool[i].room = r}) >= 2

\* the first 3 entries of group g in the output are of 3 distinct subgroups
FirstThreeDistinct(out, g) ==
  /\ Len(FirstRoomsOf(out, g, 3)) = 3
  /\ Cardinality(Range(FirstRoomsOf(out, g, 3))) = 3

\* C6 Subgroup round-robin, as claimed: in a pool of one or several groups, a
\* group with subgroups {A,B,C} of at least 2 entries each has its first 3
\* output entries in 3 distinct subgroups whenever no subgroup fallback was used.
C6_RoundRobinAnyPool ==
  \A g \in DOMAIN byLevel :
    (pc = "done" /\ HasThreeRooms(given, g) /\ "room" \notin fallbacks)
       => FirstThreeDistinct(result, g)

\* C6 Subgroup round-robin, amended: in a pool whose entries all belong to one
\* group with subgroups {A,B,C} of at least 2 entries each, the first 3 output
\* entries are of 3 distinct subgroups whenever no subgroup fallback was used.
C6_RoundRobinSingleGroup ==
  \A g \in DOMAIN byLevel :
    (pc = "done" /\ HasThreeRooms(given, g) /\ "room" \notin fallbacks
       /\ \A i \in 1..Len(given) : given[i].level = g)
       => FirstThreeDistinct(result, g)

C6_Witness ==
  /\ pc = "done" /\ given = OneGroupPool /\ "room" \notin fallbacks
  /\ HasThreeRooms(given, "1")
  /\ FirstRoomsOf(result, "1", 3) = <<"B", "C", "A">>

\* C7 Full permutation on malformed input: with "" as a group, every pool of
\* at least 3 entries is still returned as a full permutation.
C7_FullPermutationWithEmptyGroup ==
  (pc = "done" /\ Len(given) >= 3) => IsPermutationOf(result, given)

\* the groups picked at the up to LEVEL_COOLDOWN positions before j
RecentGroupsAt(out, j) ==
  {out[m].level : m \in {n \in 1..(j - 1) : j - n <= LEVEL_COOLDOWN}}

\* a group repeats within LEVEL_COOLDOWN positions only where every group that
\* still had entries had been picked within the LEVEL_COOLDOWN positions before
SpacedUnlessForced(out) ==
  \A j \in 1..Len(out) :
    out[j].level \in RecentGroupsAt(out, j) =>
      RemainingGroupsAt(out, j) \subseteq RecentGroupsAt(out, j)

\* C8 Structure is fixed, values vary: on a well-formed pool of at least 3
\* entries the first pick can go to two different entries (so more than one
\* order is returned), and every returned order is a permutation of the pool
\* that respects the group-cooldown spacing.
C8_StructureFixedValuesVary ==
  (WellFormed(given) /\ Len(given) >= 3) =>
     /\ (pc = "loop" /\ result = <<>>) =>
          \E a, b \in Range(given) :
             /\ a # b
             /\ ENABLED (PickStep /\ result' = <<a>>)
             /\ ENABLED (PickStep /\ result' = <<b>>)
     /\ pc = "done" => IsPermutationOf(result, given) /\ SpacedUnlessForced(result)

C8_Witness ==
  /\ pc = "done" /\ WellFormed(given) /\ Len(given) >= 3
  /\ result[1] # given[1]
  /\ \E j \in 2..Len(result) : result[j].level \in RecentGroupsAt(result, j)

\* C9 No cross-call memory: every invocation, also one that follows another,
\* begins its pick loop with every group cooldown and every subgroup cooldown
\* at 0 and every group of the pool eligible.
C9_NoCrossCallMemory ==
  (pc = "loop" /\ result = <<>>) =>
     /\ \A l \in Levels : GetOr0(levelCooldown, l) = 0
     /\ \A l \in Levels, r \in Rooms : GetOr0(roomCooldown, RoomKey(l, r)) = 0
     /\ \A l \in DOMAIN byLevel : l \in Range(AvailableLevels)

\* the second invocation picks first from the group and subgroup that the first
\* invocation picked last
C9_Witness ==
  /\ calls = 2 /\ Len(result) = 1 /\ prevLast # <<>>
  /\ result[1].level = prevLast[1].level
  /\ result[1].room = prevLast[1].room
  /\ Len(given) >= 3

\* C10 Purity: the argument array holds the same entries in the same order at
\* every point of the invocation and after it, each with its fields (is_winner
\* among them) as given, and the returned entries are entries of the argument.
C10_InputUnchanged ==
  /\ students = given
  /\ \A i \in 1..Len(students) : students[i].is_winner = FALSE /\ students[i].id = i
  /\ Range(result) \subseteq Range(given)

C10_Witness ==
  /\ pc = "done" /\ Len(given) >= 3 /\ exit = "loopEnd"
  /\ students = given /\ result # students

\* a step of the pick loop that commits an entry, and the entry it commits
PickMade == pc = "loop" /\ Len(result') = Len(result) + 1

Picked == result'[Len(result')]

\* the <<group, subgroup>> pairs of a pool
PairsOf(pool) == {<<pool[i].level, pool[i].room>> : i \in 1..Len(pool)}

\* the number of distinct subgroups of group g in a pool
SubgroupCount(pool, g) ==
  Cardinality({pool[i].room : i \in {k \in 1..Len(pool) : pool[k].level = g}})

RemainingLevels == {l \in DOMAIN byLevel : byLevel[l] # <<>>}

EligibleLevels == {l \in RemainingLevels : GetOr0(levelCooldown, l) <= 0}

\* C16 Group fallback: at a pick step where every group with remaining entries
\* has a cooldown > 0, the group picked has the minimum cooldown over the groups
\* with remaining entries; at a pick step where some group with remaining
\* entries has cooldown <= 0, the candidate groups are exactly the groups with
\* remaining entries and cooldown <= 0.
C16_GroupFallback ==
  [][(pc = "loop" /\ Len(result) < Len(students)) =>
       IF EligibleLevels = {}
       THEN PickMade =>
              /\ Picked.level \in RemainingLevels
              /\ \A l \in RemainingLevels :
                   GetOr0(levelCooldown, Picked.level) <= GetOr0(levelCooldown, l)
       ELSE Range(CandidateLevels) = EligibleLevels]_vars

\* the third pick went back to the group of the first pick, whose counter (4)
\* was the lowest, although the group of the second pick (counter 5) comes
\* first in iteration order and still had entries
C16_Witness ==
  /\ Len(result) = 3 /\ Len(levelKeys) = 2
  /\ result[2].level = levelKeys[1] /\ result[1].level = levelKeys[2]
  /\ result[3].level = result[1].level
  /\ byLevel[result[2].level] # <<>>
  /\ "level" \in fallbacks

\* the subgroup cooldowns of the remaining entries of group g
RemainingRoomCds(g) == {RoomCd(g, byLevel[g][i]) : i \in 1..Len(byLevel[g])}

\* C17 Subgroup eligibility: at every pick step of a well-formed pool the picked
\* entry is one of the chosen group's remaining entries; its subgroup cooldown
\* is <= 0 whenever the chosen group has a remaining entry with subgroup
\* cooldown <= 0, and otherwise it is the minimum over the chosen group's
\* remaining entries.
C17_SubgroupEligibility ==
  [][(PickMade /\ WellFormed(given)) =>
       /\ Picked \in Range(byLevel[Picked.level])
       /\ IF \E cd \in RemainingRoomCds(Picked.level) : cd <= 0
          THEN RoomCd(Picked.level, Picked) <= 0
          ELSE \A cd \in RemainingRoomCds(Picked.level) :
                 RoomCd(Picked.level, Picked) <= cd]_vars

\* after picks from "C", "B" and "A" of the group with three subgroups the
\* remaining entries were of "A" (counter 2) and "B" (counter 1), both on
\* cooldown: the fourth pick fell back to "B"
C17_Witness ==
  /\ Len(result) = 4 /\ Len(given) = 5 /\ "room" \in fallbacks
  /\ \A i \in 1..4 : result[i].level = "1"
  /\ <<result[1].room, result[2].room, result[3].room, result[4].room>>
       = <<"C", "B", "A", "B">>
  /\ byLevel["1"] # <<>> /\ byLevel["1"][1].room = "A"

\* C18 Emergency fallback unreachable on well-formed input: at every pick step
\* there is a candidate group, every candidate group (so the first one tried,
\* whatever the shuffled order) yields an entry, and neither the emergency
\* branch nor the break after it is ever taken.
C18_EmergencyUnreachable ==
  WellFormed(given) =>
     /\ "emergency" \notin fallbacks
     /\ exit # "noSelection"
     /\ (pc = "loop" /\ Len(result) < Len(students)) =>
          /\ CandidateLevels # <<>>
          /\ \A l \in Range(CandidateLevels) : Len(ValidStudents(l)) > 0
          /\ \A order \in RandomSorts(CandidateLevels) :
               \A tried \in TryLevels(order) :
                  ~Unselected(tried) /\ tried.level[1] = Head(order)

\* a well-formed pool drawn to the end through the group fallback and the
\* subgroup fallback, without the emergency branch
C18_Witness ==
  /\ pc = "done" /\ WellFormed(given) /\ Len(given) >= 4
  /\ exit = "loopEnd"
  /\ fallbacks = {"level", "room"}

\* C19 Strict spacing with enough groups: on a well-formed pool, a pick step at
\* which some group with remaining entries has cooldown <= 0 does not pick a
\* group picked at one of the 5 positions before; and a pick step at which at
\* least 6 groups have remaining entries is such a step, so that no group occurs
\* twice in 6 consecutive positions as long as 6 groups have remaining entries.
C19_StrictSpacing ==
  [][(PickMade /\ WellFormed(given)) =>
       /\ EligibleLevels # {} =>
            Picked.level \notin RecentGroupsAt(result, Len(result) + 1)
       /\ Cardinality(RemainingLevels) >= 6 =>
            /\ EligibleLevels # {}
            /\ Picked.level \notin RecentGroupsAt(result, Len(result) + 1)]_vars

\* six groups still had entries at the seventh pick, which went back to the
\* group of the first pick, 6 positions after it
C19_Witness ==
  /\ given = SixGroupPool /\ Len(result) = 7
  /\ Cardinality({result[i].level : i \in 1..6}) = 6
  /\ result[7].level = result[1].level
  /\ Cardinality(RemainingLevels) = 5

\* every entry of the pool belongs to one group
SingleGroup(pool) == \A i, j \in 1..Len(pool) : pool[i].level = pool[j].level

\* C20 By-level draw avoids consecutive same room: for a pool of at least 3
\* entries that all belong to one group, a pick does not take the subgroup of
\* the pick before it if, at that pick, an entry of another subgroup remains.
C20_NoConsecutiveSameRoom ==
  [][(PickMade /\ Len(given) >= 3 /\ SingleGroup(given) /\ Len(result) >= 1
        /\ \E i \in 1..Len(byLevel[Picked.level]) :
              byLevel[Picked.level][i].room # result[Len(result)].room)
       => Picked.room # result[Len(result)].room]_vars

\* a one-group pool of three entries of "A" and two of "B" drawn in alternation:
\* at picks 2 and 4 an entry of the subgroup just picked remained as well
C20_Witness ==
  /\ pc = "done" /\ Len(given) = 5 /\ SingleGroup(given) /\ Len(result) = 5
  /\ [i \in 1..5 |-> result[i].room] = <<"A", "B", "A", "B", "A">>

\* the rows of the table that a load for `level` (<<>>: every level) is to draw
\* from: those whose is_winner is false, of that level
NotYetWon(level) ==
  {store[i] : i \in {k \in 1..Len(store) :
                       ~store[k].is_winner /\ (level = <<>> \/ store[k].level = level[1])}}

\* the steps of a load call of caller c: its query answered with rows, with
\* none, and its return out of fairDistributionShuffle
FetchedRows(c) == inflight[c].stage = "select" /\ inflight'[c].stage = "shuffle"

FetchedNone(c) ==
  inflight[c].stage = "select" /\ inflight'[c].stage = "returned" /\ inflight'[c].ok

ShuffleReturned(c) == inflight[c].stage = "shuffle" /\ inflight'[c].stage = "returned"

\* C11 Candidate loading: a load whose query succeeds hands to
\* fairDistributionShuffle exactly the M rows that are not winners at the time
\* of the query (of the requested level only, in by-level mode) and returns
\* exactly the first min(count, M) entries of the order it gets back; the list
\* returned never holds a row that was a winner at the time of the query, never
\* a row of another level in by-level mode, and never an id twice.
C11_CandidatePrefix ==
  /\ [][\A c \in Callers :
          /\ FetchedRows(c) =>
               /\ Range(given') = NotYetWon(inflight[c].level)
               /\ Len(given') = Cardinality(NotYetWon(inflight[c].level))
          /\ FetchedNone(c) =>
               NotYetWon(inflight[c].level) = {} /\ inflight'[c].ret = <<>>
          /\ (inflight[c].stage = "shuffle" /\ ~ShuffleReturned(c)) => given' = given
          /\ ShuffleReturned(c) =>
               /\ IsPermutationOf(result, given)
               /\ inflight'[c].ret
                    = SubSeq(result, 1, Min(inflight[c].count, Len(given)))]_vars
  /\ [](\A c \in Callers :
          (inflight[c].op = "load" /\ inflight[c].stage = "returned") =>
             LET ret == inflight[c].ret
             IN /\ \A i \in 1..Len(ret) :
                     /\ ~ret[i].is_winner
                     /\ inflight[c].level # <<>> => ret[i].level = inflight[c].level[1]
                /\ \A i, j \in 1..Len(ret) : ret[i].id = ret[j].id => i = j)

\* getRandomCandidates(1) on a table of 3 rows, none a winner: the list is the
\* one entry the fair order put first, here not the first row of the table
C11_Witness ==
  /\ inflight["a"].op = "load" /\ inflight["a"].stage = "returned"
  /\ inflight["a"].ok /\ inflight["a"].level = <<>> /\ inflight["a"].count = 1
  /\ succeeded = {} /\ Len(store) >= 3
  /\ Len(inflight["a"].ret) = 1 /\ inflight["a"].ret[1].id = 3

\* C12 A confirmed winner is never offered again: the list returned by a load
\* that began after the update of markAsWinner(id) was applied, with no reset of
\* the winners since, does not hold the row of that id.
C12_WinnerNotOfferedAgain ==
  \A c \in Callers :
    inflight[c].op = "load" =>
       /\ inflight[c].stage = "shuffle" =>
            \A i \in 1..Len(given) : given[i].id \notin inflight[c].excluded
       /\ inflight[c].stage = "returned" =>
            \A i \in 1..Len(inflight[c].ret) :
               inflight[c].ret[i].id \notin inflight[c].excluded

\* a load in by-level mode begun after a row of that level was marked returns
\* the other row of the level
C12_Witness ==
  /\ inflight["a"].op = "load" /\ inflight["a"].stage = "returned"
  /\ inflight["a"].level = <<"1">> /\ inflight["a"].count = DEFAULT_COUNT
  /\ inflight["a"].excluded = {1}
  /\ Len(inflight["a"].ret) = 1 /\ inflight["a"].ret[1].id = 2

\* the update of a markAsWinner call of caller c is answered
MarkAnswered(c) ==
  inflight[c].op = "mark" /\ inflight[c].stage = "update"
    /\ inflight'[c].stage = "returned"

\* the table after one markAsWinner(id) on the table `rows`
MarkedOnce(rows, id) ==
  [i \in 1..Len(rows) |-> [rows[i] EXCEPT !.is_winner = (rows[i].is_winner \/ i = id)]]

\* C13 markAsWinner is idempotent and keyed by id: every update of a call
\* markAsWinner(id) either fails and leaves the table as it was or leaves it as
\* one call does (row id has is_winner = true, every other row is unchanged),
\* also when the row is a winner already and when two callers' calls overlap; so
\* the winners are exactly the ids marked since the last reset, however often.
C13_MarkIdempotent ==
  /\ [][\A c \in Callers :
          MarkAnswered(c) =>
             /\ store' = IF inflight'[c].ok THEN MarkedOnce(store, inflight[c].id)
                         ELSE store
             /\ store[inflight[c].id].is_winner => store' = store]_vars
  /\ [](\A i \in 1..Len(store) :
          store[i] = [Roster[i] EXCEPT !.is_winner = (i \in succeeded)])

\* two callers have each had markAsWinner(2) succeed
C13_Witness ==
  /\ \A c \in Callers :
       /\ inflight[c].op = "mark" /\ inflight[c].stage = "returned"
       /\ inflight[c].ok /\ inflight[c].id = 2
  /\ succeeded = {2}
  /\ store[2].is_winner /\ ~store[1].is_winner

\* C14 Skip does not touch the store: a skip begins no markAsWinner call and
\* leaves the table as it is; it only moves to the next candidate (currentIndex
\* + 1, reveal stage 0, the list as it was) or, when the current candidate is
\* the last, begins a reload of the list (loadCandidates of the selected mode);
\* and in the display the table changes only through the update of a
\* markAsWinner call made by handleConfirm.
C14_SkipLeavesStore ==
  /\ [][HandleSkip =>
          /\ store' = store
          /\ candidates' = candidates
          /\ \A c \in Callers : inflight'[c].op # "mark"
          /\ IF currentIndex < Len(candidates) - 1
             THEN /\ currentIndex' = currentIndex + 1
                  /\ revealStage' = 0
                  /\ inflight' = inflight /\ isLoading' = isLoading
             ELSE /\ currentIndex' = 0 /\ revealStage' = 0 /\ isLoading'
                  /\ \E c \in Callers :
                       /\ inflight[c].op = "none"
                       /\ inflight'[c].op = "load" /\ inflight'[c].stage = "select"
                       /\ inflight'[c].level = LoadTarget
                       /\ inflight'[c].count = 10
                       /\ \A d \in Callers \ {c} : inflight'[d] = inflight[d]]_vars
  /\ [][store' # store =>
          \E c \in Callers : MarkAnswered(c) /\ inflight[c].handler = "handleConfirm"]_vars

\* the three candidates have been revealed and skipped, the reload that the
\* last skip began has fetched its list: all three rows, none a winner
C14_Witness ==
  /\ inflight["a"].op = "load" /\ inflight["a"].handler = "handleSkip"
  /\ inflight["a"].stage = "returned" /\ inflight["a"].ok
  /\ Len(candidates) = 3 /\ Len(inflight["a"].ret) = 3
  /\ succeeded = {}
  /\ \A i \in 1..Len(store) : ~store[i].is_winner

\* C21 Subgroup cooldowns keyed by the pair (group, subgroup): for any two
\* distinct pairs of the pool, also with tokens that contain '-', a pick of an
\* entry of one pair never sets the cooldown of the other to the subgroup
\* window: it only decreases it by 1 (floored at 0), so the two pairs do not
\* share one cooldown counter.
C21_KeyedByPair ==
  [][PickMade =>
       \A p \in PairsOf(given) \ {<<Picked.level, Picked.room>>} :
          GetOr0(roomCooldown', RoomKey(p[1], p[2]))
            = Max(GetOr0(roomCooldown, RoomKey(p[1], p[2])) - 1, 0)]_vars

\* a step that begins a loadCandidates, and one that moves to the next candidate
LoadStarted ==
  \E c \in Callers :
     /\ inflight'[c].op = "load" /\ inflight'[c].stage = "select"
     /\ inflight'[c] # inflight[c]

Advanced == currentIndex' = currentIndex + 1

MarkBegun(c) ==
  /\ inflight'[c].op = "mark" /\ inflight'[c].stage = "update"
  /\ inflight'[c] # inflight[c]

ConfirmResumed(c) ==
  /\ inflight[c].op = "mark" /\ inflight[c].stage = "returned"
  /\ inflight[c].handler = "handleConfirm"
  /\ inflight'[c] # inflight[c]

\* C24 Confirm consumes exactly one candidate: a confirm begins exactly one
\* markAsWinner call, for the current student; when the call has returned, the
\* current student is still the one confirmed and, if it is not the last of the
\* list, currentIndex increases by exactly 1, the reveal stage becomes 0 and the
\* list is unchanged (so the next candidate is displayed and none is passed
\* over), and if it is the last, a load begins with currentIndex 0.
C24_ConfirmConsumesOne ==
  /\ [][HandleConfirm =>
          /\ Cardinality({c \in Callers : MarkBegun(c)}) = 1
          /\ \A c \in Callers : MarkBegun(c) => inflight'[c].id = CurrentStudent.id]_vars
  /\ [][\A c \in Callers :
          ConfirmResumed(c) =>
             /\ HasCurrentStudent /\ CurrentStudent.id = inflight[c].id
             /\ IF currentIndex < Len(candidates) - 1
                THEN /\ currentIndex' = currentIndex + 1
                     /\ revealStage' = 0
                     /\ candidates' = candidates
                ELSE LoadStarted /\ currentIndex' = 0]_vars

\* at least one pick has been made by the invocation in progress
SomePickMade == pc \in {"loop", "done"} /\ exit # "passthrough" /\ Len(result) >= 1

LastPosOf(out, l) ==
  IF \E i \in 1..Len(out) : out[i].level = l
  THEN CHOOSE i \in 1..Len(out) :
         out[i].level = l /\ \A j \in (i + 1)..Len(out) : out[j].level # l
  ELSE 0

\* the groups with remaining entries whose cooldown is the lowest among them
LowestRemaining ==
  {l \in RemainingLevels :
     \A m \in RemainingLevels : GetOr0(levelCooldown, l) <= GetOr0(levelCooldown, m)}

\* C26 The group fallback has no ties: in the pick loop a group picked k picks
\* ago has cooldown max(5 - k, 0), so two distinct groups with cooldown > 0
\* never have the same cooldown; and when every group with remaining entries is
\* on cooldown, the group of lowest cooldown is unique, is the least recently
\* picked of them, and is the group the fallback scan finds in whatever order
\* it goes through the groups.
C26_NoTies ==
  (pc = "loop" /\ exit = "none") =>
     /\ \A l \in DOMAIN levelCooldown :
          /\ LastPosOf(result, l) > 0
          /\ levelCooldown[l] = Max(5 - (Len(result) - LastPosOf(result, l)), 0)
     /\ \A l, m \in DOMAIN levelCooldown :
          (l # m /\ levelCooldown[l] > 0 /\ levelCooldown[m] > 0)
             => levelCooldown[l] # levelCooldown[m]
     /\ (RemainingLevels # {} /\ EligibleLevels = {}) =>
          /\ Cardinality(LowestRemaining) = 1
          /\ \A l \in LowestRemaining, m \in RemainingLevels :
               LastPosOf(result, l) <= LastPosOf(result, m)
          /\ \A order \in PermsOf(Range(levelKeys)) :
               BestLevelFrom(order, <<>>, <<>>) \in {<<l>> : l \in LowestRemaining}

\* three groups had entries left and all were on cooldown at the fourth pick:
\* it went to the group of the first pick, which is not the first of the map
C26_Witness ==
  /\ given \in ThreeGroupPools /\ Len(result) = 4
  /\ Cardinality({result[i].level : i \in 1..3}) = 3
  /\ result[4].level = result[1].level
  /\ levelKeys[1] # result[1].level
  /\ "level" \in fallbacks

\* a step in which the list a loadCandidates of the display fetched is installed
ListInstalled(c) ==
  /\ inflight[c].op = "load" /\ inflight[c].stage = "returned"
  /\ inflight[c].handler # "lib"
  /\ inflight'[c].op = "none"

\* C27 A freshly loaded candidate starts encrypted: whenever a load completes
\* and installs a list with a candidate in it, the reveal stage is 0 at that
\* moment, whatever reveal key presses were made while the load was pending.
C27_FreshStartsEncrypted ==
  [][\A c \in Callers :
       (ListInstalled(c) /\ candidates' # <<>>) => revealStage' = 0]_vars

\* no loadCandidates of the display is pending
NoLoadPending == \A c \in Callers : inflight[c].op # "load"

\* C28 The displayed candidates match the selected draw mode: when loads
\* overlap, the list installed by the last of them to complete is the list of
\* the load issued for the draw mode and level selected at that moment,
\* whatever the order of the responses; and once no load is pending, in
\* by-level mode every displayed candidate is of the selected level.
C28_ListMatchesMode ==
  /\ [][\A c \in Callers :
          (ListInstalled(c) /\ inflight[c].ok /\ candidates' # <<>> /\ NoLoadPending')
             => inflight[c].level = LoadTarget]_vars
  /\ []((NoLoadPending /\ drawMode = "by-level") =>
          \A i \in 1..Len(candidates) : candidates[i].level = levelChosen)

\* C29 Confirm ignores a failed mark: an update of markAsWinner that fails
\* leaves the table as it was; handleConfirm then goes on as on success (the
\* next candidate with reveal stage 0 if the confirmed one was not the last of
\* its list, else a reload from index 0); a row is a winner only if an update
\* for it succeeded, and every load is handed every row of its level that is
\* not a winner, the student of a failed mark among them.
C29_FailedMarkIgnored ==
  /\ [][\A c \in Callers :
          /\ (MarkAnswered(c) /\ ~inflight'[c].ok) => store' = store
          /\ (ConfirmResumed(c) /\ ~inflight[c].ok) =>
               /\ candidates' = candidates /\ store' = store
               /\ IF inflight[c].idx < inflight[c].len - 1
                  THEN /\ currentIndex' = currentIndex + 1
                       /\ revealStage' = 0
                       /\ ~isLoading'
                       /\ ~LoadStarted
                  ELSE /\ LoadStarted
                       /\ currentIndex' = 0 /\ revealStage' = 0 /\ isLoading'
          /\ FetchedRows(c) =>
               \A i \in 1..Len(store) :
                  (i \notin succeeded
                     /\ (inflight[c].level = <<>> \/ store[i].level = inflight[c].level[1]))
                    => store[i] \in Range(given')]_vars
  /\ [](\A i \in 1..Len(store) : store[i].is_winner <=> i \in succeeded)

\* every confirm so far has failed, the last of them on the last candidate of
\* the list: the reload it began has fetched all three rows again
C29_Witness ==
  /\ inflight["a"].op = "load" /\ inflight["a"].handler = "handleConfirm"
  /\ inflight["a"].stage = "returned" /\ inflight["a"].ok
  /\ Len(candidates) = 3 /\ Len(inflight["a"].ret) = 3
  /\ succeeded = {}

====
